---- MODULE Spec2Model ----
(***************************************************************************)
(* Model of AdvancedVehicleDetector (src/advanced_detector.py): the        *)
(* centroid tracker (update_tracking), the counting line                   *)
(* (set_counting_zone, count_vehicles), the speed estimate                  *)
(* (estimate_speed), the lane filter (detect_lanes) and the loop body of   *)
(* process_video_advanced, as one step (ProcessFrame) and call by call      *)
(* (SpecVideo, with detect_vehicles); and of                                *)
(* VehicleDetector.detect_from_image (src/vehicle_detector.py).             *)
(*                                                                         *)
(* Encodings.                                                              *)
(*  - Python None is the empty tuple, a present value x is <<x>>.          *)
(*  - A dict is a sequence of [id, center] entries in insertion order      *)
(*    (trackers) or a function over its keys (tracker_history,             *)
(*    vehicle_count).                                                      *)
(*  - math.sqrt(n) of a non-negative integer n is represented by n itself: *)
(*    the code only compares such roots with each other and with 100, and  *)
(*    sqrt is strictly increasing, so root < root' is n < n' and           *)
(*    root < 100 is n < 100 * 100.  A speed sqrt(n) / (k / fps) is the     *)
(*    fraction [num |-> n * fps * fps, den |-> k * k] of its square.       *)
(***************************************************************************)
EXTENDS Integers, Sequences, FiniteSets, TLC

\* ---------------------------------------------------------------- bounds
MaxFrames == 2
MaxTracked == 3
MaxCount == 2
WindowFrames == 33
\* frames of the single-vehicle scenario
ScenarioFrames == 4
\* calls of detect_from_image that run the model
MaxImages == 3
\* frames of a video
MaxVideoFrames == 2
\* calls of update_tracking in a row
TrackerCalls == 3

\* ------------------------------------------------------ program constants
HistoryMaxLen == 30
GateDistance == 100
LaneMaxDeltaY == 50
FirstTrackerId == 1
\* VehicleDetector: the default confidence_threshold 0.5, in hundredths
ConfidenceThreshold == 50
\* VehicleDetector.vehicle_classes
VehicleClasses == {2, 3, 5, 7}

\* ------------------------------------------------------------ input sets
None == <<>>
Some(x) == <<x>>

Classes == {"car", "bus"}

\* points on one line, 50 apart: neighbours are within the gate, the two
\* outer points are exactly 100 apart
Points == {<<0, 0>>, <<30, 40>>, <<60, 80>>}

LineYs == {40, 50}

FpsValues == {30, 0, -30}

\* what detect_vehicles hands to the tracker: no tracker_id yet
RawDetections ==
    {[center |-> <<0, 0>>, class_name |-> "car", tracker_id |-> None],
     [center |-> <<30, 40>>, class_name |-> "bus", tracker_id |-> None],
     [center |-> <<60, 80>>, class_name |-> "car", tracker_id |-> None]}

SeqsUpTo(S, n) == UNION {[1..k -> S] : k \in 0..n}

\* the frames of at most n detections
Frames(n) == SeqsUpTo(RawDetections, n)

\* what cv2.HoughLinesP may return: None, or segments x1, y1, x2, y2
MixedSegments ==
    Some(<<<<0, 150, 200, 100>>, <<0, 100, 200, 149>>, <<0, 100, 200, 150>>>>)

HoughOutputs ==
    {None, Some(<<<<0, 100, 200, 100>>, <<0, 100, 200, 149>>>>), MixedSegments}

\* ----------------------------------------------------------------- state
\* the detector's fields
VARIABLES trackers, next_tracker_id, tracker_history, vehicle_count,
          counting_line_y
\* the last call: its name, its argument, what it returned and printed;
\* detections is the caller's list, annotated in place by update_tracking
VARIABLES op, arg, detections, count_ret, speed_ret, lanes_ret, printed
\* history of the run: the number of frames tracked, self.trackers as the
\* last update_tracking found it, every centroid ever appended to each
\* history, every id ever written into a detection
VARIABLES frame_count, prev_trackers, arrivals, assigned
\* VehicleDetector.detect_from_image: the output files written so far, the
\* number of runs of the YOLO model, and what the last call returned
VARIABLES files, model_runs, image_ret
\* process_video_advanced: the frames the capture has still to deliver, the
\* position in the function, the frame read last, the show_video flag, the
\* key cv2.waitKey reported last, and the calls made so far with the number
\* of the frame they were made for
VARIABLES cap, pc, frame, show_video, key, trace

trackerVars == <<trackers, next_tracker_id, tracker_history, vehicle_count,
                 counting_line_y, detections, count_ret, speed_ret,
                 lanes_ret, printed, frame_count, prev_trackers, arrivals,
                 assigned>>

imageVars == <<files, model_runs, image_ret>>

videoVars == <<cap, pc, frame, show_video, key, trace>>

vars == <<trackers, next_tracker_id, tracker_history, vehicle_count,
          counting_line_y, op, arg, detections, count_ret, speed_ret,
          lanes_ret, printed, frame_count, prev_trackers, arrivals, assigned,
          files, model_runs, image_ret, cap, pc, frame, show_video, key, trace>>

EmptyDict == [k \in {} |-> 0]

NoSpeed == [kind |-> "not_called"]

NoImage == [kind |-> "not_called"]

Init ==
    /\ trackers = <<>>
    /\ next_tracker_id = FirstTrackerId
    /\ tracker_history = EmptyDict
    /\ vehicle_count = EmptyDict
    /\ counting_line_y = None
    /\ detections = <<>>
    /\ op = "init"
    /\ arg = <<>>
    /\ prev_trackers = <<>>
    /\ count_ret = EmptyDict
    /\ speed_ret = NoSpeed
    /\ lanes_ret = <<>>
    /\ printed = <<>>
    /\ frame_count = 0
    /\ arrivals = EmptyDict
    /\ assigned = {}
    /\ files = EmptyDict
    /\ model_runs = 0
    /\ image_ret = NoImage
    /\ cap = <<>>
    /\ pc = "idle"
    /\ frame = None
    /\ show_video = TRUE
    /\ key = None
    /\ trace = <<>>

\* -------------------------------------------------------------- geometry
Sq(n) == n * n

\* the square of math.sqrt(dx**2 + dy**2)
Distance(a, b) == Sq(a[1] - b[1]) + Sq(a[2] - b[2])

\* distance < 100
WithinGateLoose(distance) == distance <= Sq(GateDistance)
WithinGate(distance) == distance < Sq(GateDistance)

\* distance < min_distance, min_distance starting at float('inf')
BelowMinFromZero(distance, min_distance) ==
    distance < (IF min_distance = None THEN 0 ELSE min_distance[1])
BelowMinFarthest(distance, min_distance) ==
    \/ min_distance = None
    \/ distance > min_distance[1]
BelowMinOrEqual(distance, min_distance) ==
    \/ min_distance = None
    \/ distance <= min_distance[1]
BelowMin(distance, min_distance) ==
    \/ min_distance = None
    \/ distance < min_distance[1]

\* the loop over self.trackers.items(): the entry kept is the first one at
\* the least gated distance
RECURSIVE FindClosest(_, _, _, _, _)
FindClosest(center, items, i, min_distance, matched_id) ==
    IF i > Len(items) THEN matched_id
    ELSE LET distance == Distance(center, items[i].center)
         IN  IF BelowMin(distance, min_distance) /\ WithinGate(distance)
             THEN FindClosest(center, items, i + 1, Some(distance), Some(items[i].id))
             ELSE FindClosest(center, items, i + 1, min_distance, matched_id)

\* ------------------------------------------------------------ containers
\* deque(maxlen=30).append
DequeAppendDropNewest(q, x) ==
    IF Len(q) >= HistoryMaxLen THEN q ELSE Append(q, x)
DequeAppendUnbounded(q, x) == Append(q, x)
DequeAppendKeepOldest(q, x) ==
    IF Len(q) >= HistoryMaxLen
    THEN Append(<<q[1]>> \o SubSeq(q, 3, Len(q)), x)
    ELSE Append(q, x)
DequeAppend(q, x) ==
    IF Len(q) >= HistoryMaxLen THEN Append(Tail(q), x) ELSE Append(q, x)

\* self.tracker_history[id].append(center) on the defaultdict
HistoryAppendPurge(hist, id, center) ==
    IF id \in DOMAIN hist
    THEN [hist EXCEPT ![id] = DequeAppend(@, center)]
    ELSE (id :> DequeAppend(<<>>, center))
HistoryAppend(hist, id, center) ==
    IF id \in DOMAIN hist
    THEN [hist EXCEPT ![id] = DequeAppend(@, center)]
    ELSE hist @@ (id :> DequeAppend(<<>>, center))

\* the unbounded record of everything appended to a track's history
ArrivalAppend(arr, id, center) ==
    IF id \in DOMAIN arr
    THEN [arr EXCEPT ![id] = Append(@, center)]
    ELSE arr @@ (id :> <<center>>)

DictKeys(d) == {d[i].id : i \in DOMAIN d}

\* current_trackers[id] = center: a present key keeps its position
DictSetKeepFirst(d, id, center) ==
    IF id \in DictKeys(d)
    THEN d
    ELSE Append(d, [id |-> id, center |-> center])
DictSet(d, id, center) ==
    IF id \in DictKeys(d)
    THEN [i \in DOMAIN d |-> IF d[i].id = id THEN [id |-> id, center |-> center] ELSE d[i]]
    ELSE Append(d, [id |-> id, center |-> center])

\* detection['tracker_id'] = id
AnnotateForget(detection, id) == detection
Annotate(detection, id) == [detection EXCEPT !.tracker_id = Some(id)]

\* self.next_tracker_id += 1
AdvanceIdStuck(n) == n
AdvanceIdByTwo(n) == n + 2
AdvanceId(n) == n + 1

\* ------------------------------------------------------- update_tracking
\* one iteration of the loop over detections
TrackOne(st, detection, prior) ==
    LET center == detection.center
        matched_id == FindClosest(center, prior, 1, None, None)
    IN  IF matched_id # None
        THEN [cur      |-> DictSet(st.cur, matched_id[1], center),
              out      |-> Append(st.out, Annotate(detection, matched_id[1])),
              hist     |-> HistoryAppend(st.hist, matched_id[1], center),
              next     |-> st.next,
              arr      |-> ArrivalAppend(st.arr, matched_id[1], center),
              assigned |-> st.assigned \cup {matched_id[1]}]
        ELSE [cur      |-> DictSet(st.cur, st.next, center),
              out      |-> Append(st.out, Annotate(detection, st.next)),
              hist     |-> HistoryAppend(st.hist, st.next, center),
              next     |-> AdvanceId(st.next),
              arr      |-> ArrivalAppend(st.arr, st.next, center),
              assigned |-> st.assigned \cup {st.next}]

RECURSIVE TrackLoop(_, _, _, _)
TrackLoop(st, dets, i, prior) ==
    IF i > Len(dets) THEN st
    ELSE TrackLoop(TrackOne(st, dets[i], prior), dets, i + 1, prior)

\* the registry after update_tracking(dets)
TrackAllKeepLive(dets) ==
    TrackLoop([cur |-> trackers, out |-> <<>>, hist |-> tracker_history,
               next |-> next_tracker_id, arr |-> arrivals,
               assigned |-> assigned],
              dets, 1, trackers)
TrackAll(dets) ==
    TrackLoop([cur |-> <<>>, out |-> <<>>, hist |-> tracker_history,
               next |-> next_tracker_id, arr |-> arrivals,
               assigned |-> assigned],
              dets, 1, trackers)

\* -------------------------------------------------------- count_vehicles
\* prev_y < self.counting_line_y and curr_y >= self.counting_line_y
CrossedLoose(prev_y, line_y, curr_y) == prev_y <= line_y /\ curr_y >= line_y
CrossedIgnoresCurrent(prev_y, line_y, curr_y) == prev_y < line_y
CrossedAnyDirection(prev_y, line_y, curr_y) ==
    \/ prev_y < line_y /\ curr_y >= line_y
    \/ prev_y >= line_y /\ curr_y < line_y
Crossed(prev_y, line_y, curr_y) == prev_y < line_y /\ curr_y >= line_y

\* self.vehicle_count[vehicle_type] += 1 on the defaultdict(int)
Increment(vc, vehicle_type) ==
    IF vehicle_type \in DOMAIN vc
    THEN [vc EXCEPT ![vehicle_type] = @ + 1]
    ELSE vc @@ (vehicle_type :> 1)

\* the test of one detection in the loop of count_vehicles
CountsFromFirst(detection, hist, line_y) ==
    LET tracker_id == detection.tracker_id
    IN  /\ tracker_id # None
        /\ tracker_id[1] # 0
        /\ tracker_id[1] \in DOMAIN hist
        /\ LET history == hist[tracker_id[1]]
           IN  /\ Len(history) >= 2
               /\ Crossed(history[1][2], line_y, history[Len(history)][2])
Counts(detection, hist, line_y) ==
    LET tracker_id == detection.tracker_id
    IN  /\ tracker_id # None
        /\ tracker_id[1] # 0
        /\ tracker_id[1] \in DOMAIN hist
        /\ LET history == hist[tracker_id[1]]
           IN  /\ Len(history) >= 2
               /\ Crossed(history[Len(history) - 1][2], line_y,
                          history[Len(history)][2])

\* self.tracker_history[id] on the defaultdict: reading a missing key
\* creates it with an empty deque
DefaultGet(hist, id) ==
    IF id \in DOMAIN hist THEN hist ELSE hist @@ (id :> <<>>)

\* the history store after the loop of count_vehicles: a history is read
\* only for a tracker_id that is set and is a key
RECURSIVE HistoryAfterCount(_, _, _)
HistoryAfterCount(hist, dets, i) ==
    IF i > Len(dets) THEN hist
    ELSE LET tracker_id == dets[i].tracker_id
         IN  IF tracker_id # None /\ tracker_id[1] # 0
                   /\ tracker_id[1] \in DOMAIN hist
             THEN HistoryAfterCount(DefaultGet(hist, tracker_id[1]), dets, i + 1)
             ELSE HistoryAfterCount(hist, dets, i + 1)

RECURSIVE CountLoop(_, _, _, _, _)
CountLoop(st, dets, i, hist, line_y) ==
    IF i > Len(dets) THEN st
    ELSE IF Counts(dets[i], hist, line_y)
         THEN CountLoop([vc |-> Increment(st.vc, dets[i].class_name),
                         printed |-> Append(st.printed,
                                            [vehicle_type |-> dets[i].class_name,
                                             id |-> dets[i].tracker_id[1]])],
                        dets, i + 1, hist, line_y)
         ELSE CountLoop(st, dets, i + 1, hist, line_y)

\* count_vehicles(dets) run on the given registry: the new table, the
\* lines printed and the value returned
CountAllAlwaysTable(line, hist, vc, dets) ==
    IF line = None
    THEN [vc |-> vc, printed |-> <<>>, ret |-> (("car" :> 0) @@ vc)]
    ELSE LET st == CountLoop([vc |-> vc, printed |-> <<>>], dets, 1, hist, line[1])
         IN  [vc |-> st.vc, printed |-> st.printed, ret |-> st.vc]
CountAllPerCall(line, hist, vc, dets) ==
    IF line = None
    THEN [vc |-> vc, printed |-> <<>>, ret |-> EmptyDict]
    ELSE LET st == CountLoop([vc |-> EmptyDict, printed |-> <<>>], dets, 1, hist, line[1])
         IN  [vc |-> st.vc, printed |-> st.printed, ret |-> st.vc]
CountAllClearsOnEmpty(line, hist, vc, dets) ==
    IF line = None \/ dets = <<>>
    THEN [vc |-> EmptyDict, printed |-> <<>>, ret |-> EmptyDict]
    ELSE LET st == CountLoop([vc |-> vc, printed |-> <<>>], dets, 1, hist, line[1])
         IN  [vc |-> st.vc, printed |-> st.printed, ret |-> st.vc]
CountAll(line, hist, vc, dets) ==
    IF line = None
    THEN [vc |-> vc, printed |-> <<>>, ret |-> EmptyDict]
    ELSE LET st == CountLoop([vc |-> vc, printed |-> <<>>], dets, 1, hist, line[1])
         IN  [vc |-> st.vc, printed |-> st.printed, ret |-> st.vc]

\* -------------------------------------------------------- estimate_speed
SpeedOfShortWindow(hist, tracker_id, fps) ==
    IF tracker_id \notin DOMAIN hist THEN [kind |-> "none"]
    ELSE LET history == hist[tracker_id]
         IN  IF Len(history) < 2 THEN [kind |-> "none"]
             ELSE IF fps = 0 THEN [kind |-> "ZeroDivisionError"]
             ELSE IF fps > 0
                  THEN [kind |-> "value",
                        num |-> Distance(history[Len(history)], history[Len(history) - 1]) * Sq(fps),
                        den |-> Sq(Len(history))]
                  ELSE [kind |-> "none"]
\* the history store after estimate_speed: the membership test of line 197
\* comes before the read of line 200
HistoryAfterSpeedUnguarded(hist, tracker_id) == DefaultGet(hist, tracker_id)
HistoryAfterSpeed(hist, tracker_id) ==
    IF tracker_id \notin DOMAIN hist THEN hist ELSE DefaultGet(hist, tracker_id)

\* len(history) / fps raises for fps = 0 and is positive exactly for fps > 0
SpeedOf(hist, tracker_id, fps) ==
    IF tracker_id \notin DOMAIN hist THEN [kind |-> "none"]
    ELSE LET history == hist[tracker_id]
         IN  IF Len(history) < 2 THEN [kind |-> "none"]
             ELSE IF fps = 0 THEN [kind |-> "ZeroDivisionError"]
             ELSE IF fps > 0
                  THEN [kind |-> "value",
                        num |-> Distance(history[Len(history)], history[1]) * Sq(fps),
                        den |-> Sq(Len(history))]
                  ELSE [kind |-> "none"]

\* ---------------------------------------------------------- detect_lanes
Abs(n) == IF n < 0 THEN -n ELSE n

\* abs(y2 - y1) < 50
NearlyHorizontalLoose(line) == Abs(line[4] - line[2]) <= LaneMaxDeltaY
NearlyHorizontal(line) == Abs(line[4] - line[2]) < LaneMaxDeltaY

RECURSIVE FilterLanes(_, _)
FilterLanes(lines, i) ==
    IF i > Len(lines) THEN <<>>
    ELSE IF NearlyHorizontal(lines[i])
         THEN <<lines[i]>> \o FilterLanes(lines, i + 1)
         ELSE FilterLanes(lines, i + 1)

\* lines is the output of cv2.HoughLinesP, None when nothing was found
LaneLines(lines) == IF lines # None THEN FilterLanes(lines[1], 1) ELSE <<>>

\* --------------------------------------------------------------- actions
RECURSIVE SumOver(_, _)
SumOver(f, S) ==
    IF S = {} THEN 0
    ELSE LET k == CHOOSE x \in S : TRUE IN f[k] + SumOver(f, S \ {k})

Total(vc) == SumOver(vc, DOMAIN vc)

\* the number of detections tracked so far
Tracked == SumOver([t \in DOMAIN arrivals |-> Len(arrivals[t])], DOMAIN arrivals)

UpdateTrackingCall(dets) ==
    LET st == TrackAll(dets)
    IN  /\ trackers' = st.cur
        /\ next_tracker_id' = st.next
        /\ tracker_history' = st.hist
        /\ arrivals' = st.arr
        /\ assigned' = st.assigned
        /\ detections' = st.out
        /\ prev_trackers' = trackers
        /\ frame_count' = frame_count + 1
        /\ op' = "update_tracking"
        /\ arg' = dets
        /\ count_ret' = EmptyDict
        /\ speed_ret' = NoSpeed
        /\ lanes_ret' = <<>>
        /\ printed' = <<>>
        /\ UNCHANGED <<vehicle_count, counting_line_y>>
        /\ UNCHANGED imageVars

UpdateTracking(dets) == UpdateTrackingCall(dets) /\ UNCHANGED videoVars

SetCountingZoneCall(y_position) ==
    /\ counting_line_y' = Some(y_position)
    /\ op' = "set_counting_zone"
    /\ arg' = y_position
    /\ count_ret' = EmptyDict
    /\ speed_ret' = NoSpeed
    /\ lanes_ret' = <<>>
    /\ printed' = <<>>
    /\ UNCHANGED <<trackers, next_tracker_id, tracker_history, vehicle_count,
                   detections, frame_count, prev_trackers, arrivals, assigned>>
    /\ UNCHANGED imageVars

SetCountingZone(y_position) == SetCountingZoneCall(y_position) /\ UNCHANGED videoVars

CountVehiclesCall(dets) ==
    LET c == CountAll(counting_line_y, tracker_history, vehicle_count, dets)
    IN  /\ vehicle_count' = c.vc
        /\ count_ret' = c.ret
        /\ printed' = c.printed
        /\ op' = "count_vehicles"
        /\ arg' = dets
        /\ speed_ret' = NoSpeed
        /\ lanes_ret' = <<>>
        /\ tracker_history' =
              IF counting_line_y = None THEN tracker_history
              ELSE HistoryAfterCount(tracker_history, dets, 1)
        /\ UNCHANGED <<trackers, next_tracker_id,
                       counting_line_y, detections, frame_count,
                       prev_trackers, arrivals, assigned>>
        /\ UNCHANGED imageVars

CountVehicles(dets) == CountVehiclesCall(dets) /\ UNCHANGED videoVars

EstimateSpeed(tracker_id, fps) ==
    /\ speed_ret' = SpeedOf(tracker_history, tracker_id, fps)
    /\ op' = "estimate_speed"
    /\ arg' = [tracker_id |-> tracker_id, fps |-> fps]
    /\ count_ret' = EmptyDict
    /\ lanes_ret' = <<>>
    /\ printed' = <<>>
    /\ tracker_history' = HistoryAfterSpeed(tracker_history, tracker_id)
    /\ UNCHANGED <<trackers, next_tracker_id, vehicle_count,
                   counting_line_y, detections, frame_count, prev_trackers,
                   arrivals, assigned>>
    /\ UNCHANGED imageVars
    /\ UNCHANGED videoVars

\* detect_lanes(frame), lines being what cv2.HoughLinesP yields on the frame
DetectLanesClearsLive(lines) ==
    /\ lanes_ret' = LaneLines(lines)
    /\ op' = "detect_lanes"
    /\ count_ret' = EmptyDict
    /\ speed_ret' = NoSpeed
    /\ printed' = <<>>
    /\ trackers' = <<>>
    /\ UNCHANGED <<next_tracker_id, tracker_history, vehicle_count,
                   counting_line_y, detections, frame_count, prev_trackers,
                   arrivals, assigned>>
    /\ UNCHANGED imageVars
DetectLanesCall(lines) ==
    /\ lanes_ret' = LaneLines(lines)
    /\ op' = "detect_lanes"
    /\ count_ret' = EmptyDict
    /\ speed_ret' = NoSpeed
    /\ printed' = <<>>
    /\ UNCHANGED <<trackers, next_tracker_id, tracker_history, vehicle_count,
                   counting_line_y, detections, frame_count, prev_trackers,
                   arrivals, assigned>>
    /\ UNCHANGED imageVars

DetectLanes(lines) ==
    /\ DetectLanesCall(lines)
    /\ arg' = lines
    /\ UNCHANGED videoVars

\* one iteration of the loop of process_video_advanced: update_tracking,
\* count_vehicles on its result, then detect_lanes inside the drawing; the
\* counting line was set before the loop
ProcessFrame(dets, lines) ==
    LET st == TrackAll(dets)
        c  == CountAll(counting_line_y, st.hist, vehicle_count, st.out)
    IN  /\ counting_line_y # None
        /\ trackers' = st.cur
        /\ next_tracker_id' = st.next
        /\ tracker_history' = HistoryAfterCount(st.hist, st.out, 1)
        /\ arrivals' = st.arr
        /\ assigned' = st.assigned
        /\ detections' = st.out
        /\ prev_trackers' = trackers
        /\ frame_count' = frame_count + 1
        /\ vehicle_count' = c.vc
        /\ count_ret' = c.ret
        /\ printed' = c.printed
        /\ lanes_ret' = LaneLines(lines)
        /\ speed_ret' = NoSpeed
        /\ op' = "process_frame"
        /\ arg' = dets
        /\ UNCHANGED counting_line_y
        /\ UNCHANGED imageVars
        /\ UNCHANGED videoVars

\* ids a caller may ask about: live ones, and one never allocated
TrackerIds == {1, 2, MaxTracked + 1}

\* what a caller may pass to count_vehicles: the tracked list of the last
\* frame, an empty list, or one detection carrying any tracker id or none
CountInputs ==
    {detections, <<>>} \cup
    {<<[center |-> <<0, 0>>, class_name |-> "car", tracker_id |-> t]>> :
        t \in {None, Some(1), Some(MaxTracked + 1)}}

Next ==
    \/ /\ frame_count < MaxFrames
       /\ \E dets \in Frames(MaxTracked - Tracked) : UpdateTracking(dets)
    \/ \E y_position \in LineYs : SetCountingZone(y_position)
    \/ /\ Total(vehicle_count) < MaxCount
       /\ \E dets \in CountInputs : CountVehicles(dets)
    \/ \E tracker_id \in TrackerIds, fps \in FpsValues : EstimateSpeed(tracker_id, fps)
    \/ \E lines \in HoughOutputs : DetectLanes(lines)
    \/ /\ frame_count < MaxFrames
       /\ Total(vehicle_count) < MaxCount
       /\ \E dets \in Frames(MaxTracked - Tracked) :
          \E lines \in {MixedSegments} :
             ProcessFrame(dets, lines)

Spec == Init /\ [][Next]_vars

\* ------------------------------------------------- a long stream of frames
\* One vehicle drives down the frame, 5 units a frame, past a parked one.
\* Every tenth frame the moving vehicle may be missed or detected twice;
\* every eighth frame the parked one is missed.
NearAt(n, dy, c) ==
    [center |-> <<100, 5 * n + dy>>, class_name |-> c, tracker_id |-> None]

FarDet == [center |-> <<400, 300>>, class_name |-> "car", tracker_id |-> None]

NearPart(n) ==
    {<<NearAt(n, 0, c)>> : c \in Classes} \cup
    (IF n % 10 = 9
     THEN {<<>>, <<NearAt(n, 0, "car"), NearAt(n, 2, "bus")>>}
     ELSE {})

FarPart(n) == IF n % 8 = 7 THEN {<<>>} ELSE {<<FarDet>>}

WindowInputs(n) ==
    {a \o b : a \in NearPart(n), b \in FarPart(n)} \cup
    {b \o a : a \in NearPart(n), b \in FarPart(n)}

NextWindow ==
    \/ /\ frame_count < WindowFrames
       /\ \E dets \in WindowInputs(frame_count) : UpdateTracking(dets)
    \/ /\ frame_count > 0
       /\ \E tracker_id \in {1, 2, next_tracker_id}, fps \in {30} :
             EstimateSpeed(tracker_id, fps)

SpecWindow == Init /\ [][NextWindow]_vars

\* ------------------------------------------- one vehicle and a counting line
\* One vehicle is detected once a frame at one of three heights, all within
\* the gate of each other; the counting line lies between the two lower
\* ones and the highest.  Every frame is tracked and then counted, by the
\* two calls made one after the other or by the loop body.
ScenarioPoints == {<<100, 50>>, <<100, 55>>, <<100, 95>>}

ScenarioLines == {90}

ScenarioDetections ==
    {[center |-> p, class_name |-> c, tracker_id |-> None] :
        p \in ScenarioPoints, c \in Classes}

NextScenario ==
    \/ /\ counting_line_y = None
       /\ \E y_position \in ScenarioLines : SetCountingZone(y_position)
    \/ /\ counting_line_y # None
       /\ op # "update_tracking"
       /\ frame_count < ScenarioFrames
       /\ \E d \in ScenarioDetections : UpdateTracking(<<d>>)
    \/ /\ op = "update_tracking"
       /\ CountVehicles(detections)
    \/ /\ counting_line_y # None
       /\ op # "update_tracking"
       /\ frame_count < ScenarioFrames
       /\ \E d \in ScenarioDetections : ProcessFrame(<<d>>, MixedSegments)

SpecScenario == Init /\ [][NextScenario]_vars

\* ------------------------------------- VehicleDetector.detect_from_image
\* the image files: cv2.imread returns None for a path it cannot read, else
\* the image, represented by the boxes the YOLO model finds in it as
\* [class_id, confidence in hundredths]
ImagePaths == {"non_existent.jpg", "road.jpg", "empty.jpg"}

OutputPaths == {None, Some(""), Some("out_a.jpg"), Some("out_b.jpg")}

RoadBoxes ==
    << [class_id |-> 2, confidence |-> 90], [class_id |-> 0, confidence |-> 95],
       [class_id |-> 7, confidence |-> 50], [class_id |-> 3, confidence |-> 49] >>

ImRead(image_path) ==
    IF image_path = "road.jpg" THEN Some(RoadBoxes)
    ELSE IF image_path = "empty.jpg" THEN Some(<<>>)
    ELSE None

\* class_id in self.vehicle_classes and confidence >= self.confidence_threshold
IsVehicle(box) ==
    /\ box.class_id \in VehicleClasses
    /\ box.confidence >= ConfidenceThreshold

\* detect_vehicles: the boxes of the model's result that pass the filter
RECURSIVE DetectVehicles(_, _)
DetectVehicles(boxes, i) ==
    IF i > Len(boxes) THEN <<>>
    ELSE IF IsVehicle(boxes[i])
         THEN <<boxes[i]>> \o DetectVehicles(boxes, i + 1)
         ELSE DetectVehicles(boxes, i + 1)

\* if output_path: a path that is neither None nor empty
Truthy(output_path) == output_path # None /\ output_path # Some("")

\* cv2.imwrite(output_path, result_image)
ImWrite(fs, path, image) ==
    [q \in DOMAIN fs \cup {path} |-> IF q = path THEN image ELSE fs[q]]

\* the check of the image dropped: the model runs on None and the drawing
\* fails on it
ImageOutcomeNoCheck(image_path, output_path, fs, runs) ==
    LET image == ImRead(image_path) IN
    IF image = None
    THEN [ret |-> [kind |-> "AttributeError"], files |-> fs, runs |-> runs + 1]
    ELSE LET dets == DetectVehicles(image[1], 1)
             result_image == [kind |-> "image", source |-> image_path,
                              detections |-> dets, text |-> Len(dets)]
         IN [ret |-> result_image,
             files |-> IF Truthy(output_path)
                       THEN ImWrite(fs, output_path[1], result_image)
                       ELSE fs,
             runs |-> runs + 1]

\* detect_from_image(image_path, output_path): what it returns or raises,
\* the output files and the number of model runs afterwards
ImageOutcome(image_path, output_path, fs, runs) ==
    LET image == ImRead(image_path) IN
    IF image = None
    THEN [ret |-> [kind |-> "ValueError"], files |-> fs, runs |-> runs]
    ELSE LET dets == DetectVehicles(image[1], 1)
             result_image == [kind |-> "image", source |-> image_path,
                              detections |-> dets, text |-> Len(dets)]
         IN [ret |-> result_image,
             files |-> IF Truthy(output_path)
                       THEN ImWrite(fs, output_path[1], result_image)
                       ELSE fs,
             runs |-> runs + 1]

DetectFromImage(image_path, output_path) ==
    LET r == ImageOutcome(image_path, output_path, files, model_runs) IN
    /\ op' = "detect_from_image"
    /\ arg' = [image_path |-> image_path, output_path |-> output_path]
    /\ image_ret' = r.ret
    /\ files' = r.files
    /\ model_runs' = r.runs
    /\ UNCHANGED trackerVars
    /\ UNCHANGED videoVars

NextImage ==
    /\ model_runs < MaxImages
    /\ \E image_path \in ImagePaths, output_path \in OutputPaths :
          DetectFromImage(image_path, output_path)

SpecImage == Init /\ [][NextImage]_vars

\* ------------------------------------------- update_tracking, call on call
\* update_tracking is called on frames of up to two detections, any frame
\* after any other, the same one again included
NextTracker ==
    /\ frame_count < TrackerCalls
    /\ \E dets \in Frames(2) : UpdateTracking(dets)

SpecTracker == Init /\ [][NextTracker]_vars

\* ------------------------------------------------ process_video_advanced
\* what the model finds in a frame: boxes with corners x1, y1, x2, y2, a
\* confidence in hundredths and a COCO class id
CarBox == [bbox |-> <<90, 40, 111, 61>>, confidence |-> 90, class_id |-> 2]

TruckBox == [bbox |-> <<90, 85, 110, 105>>, confidence |-> 50, class_id |-> 7]

PersonBox == [bbox |-> <<90, 40, 110, 60>>, confidence |-> 95, class_id |-> 0]

BusBox == [bbox |-> <<300, 40, 320, 60>>, confidence |-> 49, class_id |-> 5]

\* a frame: the boxes of the model and the output of cv2.HoughLinesP on it
VideoFrames ==
    {[boxes |-> <<CarBox, PersonBox>>, lines |-> None],
     [boxes |-> <<BusBox, TruckBox>>, lines |-> MixedSegments],
     [boxes |-> <<>>,
      lines |-> Some(<<<<0, 149, 200, 100>>, <<0, 100, 200, 160>>,
                       <<0, 100, 200, 100>>>>)]}

\* a video that opens, with its frame height, or None for one that does not
Videos ==
    {None} \cup
    {Some([height |-> 180, frames |-> f]) :
        f \in SeqsUpTo(VideoFrames, MaxVideoFrames)}

\* the counting_line_y argument
LineArguments == {None, Some(60)}

\* what cv2.waitKey reports: the quit key or anything else
Keys == {"q", "none"}

\* _get_class_name
ClassName(class_id) ==
    IF class_id = 2 THEN "car"
    ELSE IF class_id = 3 THEN "motorcycle"
    ELSE IF class_id = 5 THEN "bus"
    ELSE IF class_id = 7 THEN "truck"
    ELSE "unknown"

\* class_id in self.vehicle_classes and confidence >= self.confidence_threshold
PassesFilterStrict(box) ==
    /\ box.class_id \in VehicleClasses
    /\ box.confidence > ConfidenceThreshold
PassesFilter(box) ==
    /\ box.class_id \in VehicleClasses
    /\ box.confidence >= ConfidenceThreshold

\* (int((x1 + x2) / 2), int((y1 + y2) / 2)) for corners that are not negative
Center(bbox) == <<(bbox[1] + bbox[3]) \div 2, (bbox[2] + bbox[4]) \div 2>>

\* the detection dict built for a box; tracker_id is absent until
\* update_tracking writes it
Detection(box) ==
    [bbox |-> box.bbox, confidence |-> box.confidence,
     class_id |-> box.class_id, class_name |-> ClassName(box.class_id),
     center |-> Center(box.bbox), tracker_id |-> None]

\* AdvancedVehicleDetector.detect_vehicles on the boxes of a frame
RECURSIVE DetectVehiclesAdvanced(_, _)
DetectVehiclesAdvanced(boxes, i) ==
    IF i > Len(boxes) THEN <<>>
    ELSE IF PassesFilter(boxes[i])
         THEN <<Detection(boxes[i])>> \o DetectVehiclesAdvanced(boxes, i + 1)
         ELSE DetectVehiclesAdvanced(boxes, i + 1)

\* the number of frames read so far
FramesRead == Cardinality({i \in DOMAIN trace : trace[i].step = "read"})

Log(step) == trace' = Append(trace, [step |-> step, frame |-> FramesRead])

\* the position after each call of the loop body
PcAfterSkipCount(p) ==
    IF p = "detect" THEN "track"
    ELSE IF p = "track" THEN "draw"
    ELSE IF p = "count" THEN "draw"
    ELSE "show"
PcAfter(p) ==
    IF p = "detect" THEN "track"
    ELSE IF p = "track" THEN "count"
    ELSE IF p = "count" THEN "draw"
    ELSE "show"

\* lines 313-337: open the capture, set the counting line
OpenVideo(video, line, show) ==
    /\ pc = "idle"
    /\ op' = "process_video_advanced"
    /\ arg' = <<video, line, show>>
    /\ show_video' = show
    /\ UNCHANGED <<frame, key, trace>>
    /\ UNCHANGED imageVars
    /\ IF video = None
       THEN /\ pc' = "ValueError"
            /\ cap' = <<>>
            /\ UNCHANGED trackerVars
       ELSE /\ pc' = "read"
            /\ cap' = video[1].frames
            /\ counting_line_y' = Some(IF line = None
                                       THEN video[1].height \div 2
                                       ELSE line[1])
            /\ UNCHANGED <<trackers, next_tracker_id, tracker_history,
                           vehicle_count, detections, count_ret, speed_ret,
                           lanes_ret, printed, frame_count, prev_trackers,
                           arrivals, assigned>>

\* ret, frame = cap.read(); if not ret: break
ReadFrame ==
    /\ pc = "read"
    /\ op' = "read"
    /\ arg' = <<>>
    /\ UNCHANGED <<show_video, key, trackerVars, imageVars>>
    /\ IF cap = <<>>
       THEN /\ pc' = "done"
            /\ UNCHANGED <<cap, frame, trace>>
       ELSE /\ pc' = "detect"
            /\ frame' = Some(Head(cap))
            /\ cap' = Tail(cap)
            /\ trace' = Append(trace, [step |-> "read", frame |-> FramesRead + 1])

\* detections = self.detect_vehicles(frame)
DetectStep ==
    /\ pc = "detect"
    /\ pc' = PcAfter(pc)
    /\ op' = "detect_vehicles"
    /\ arg' = frame[1].boxes
    /\ detections' = DetectVehiclesAdvanced(frame[1].boxes, 1)
    /\ Log("detect_vehicles")
    /\ UNCHANGED <<trackers, next_tracker_id, tracker_history, vehicle_count,
                   counting_line_y, count_ret, speed_ret, lanes_ret, printed,
                   frame_count, prev_trackers, arrivals, assigned>>
    /\ UNCHANGED <<cap, frame, show_video, key>>
    /\ UNCHANGED imageVars

\* tracked_detections = self.update_tracking(detections)
TrackStep ==
    /\ pc = "track"
    /\ pc' = PcAfter(pc)
    /\ UpdateTrackingCall(detections)
    /\ Log("update_tracking")
    /\ UNCHANGED <<cap, frame, show_video, key>>

\* self.count_vehicles(tracked_detections)
CountStep ==
    /\ pc = "count"
    /\ pc' = PcAfter(pc)
    /\ CountVehiclesCall(detections)
    /\ Log("count_vehicles")
    /\ UNCHANGED <<cap, frame, show_video, key>>

\* draw_advanced_detections, which calls detect_lanes on the frame; the
\* line extraction inside it yields the lines of the frame
DrawStep ==
    /\ pc = "draw"
    /\ pc' = PcAfter(pc)
    /\ DetectLanesCall(frame[1].lines)
    /\ arg' = frame
    /\ Log("detect_lanes")
    /\ UNCHANGED <<cap, frame, show_video, key>>

\* lines 363-371: the frame is shown and the quit key ends the loop
ShowStep(pressed) ==
    /\ pc = "show"
    /\ pc' = IF show_video /\ pressed = "q" THEN "done" ELSE "read"
    /\ op' = "show"
    /\ arg' = frame
    /\ key' = IF show_video THEN Some(pressed) ELSE None
    /\ UNCHANGED <<cap, frame, show_video, trace>>
    /\ UNCHANGED trackerVars
    /\ UNCHANGED imageVars

NextVideo ==
    \/ \E video \in Videos, line \in LineArguments, show \in BOOLEAN :
          OpenVideo(video, line, show)
    \/ ReadFrame
    \/ DetectStep
    \/ TrackStep
    \/ CountStep
    \/ DrawStep
    \/ \E pressed \in Keys : ShowStep(pressed)

\* the function runs on once called
SpecVideo == Init /\ [][NextVideo]_vars /\ WF_vars(NextVideo)

\* ------------------------------------------------ vocabulary of the claims
\* a step that tracked a frame (update_tracking, alone or inside the loop)
TrackedFrame == frame_count' = frame_count + 1

InGate(center, entry) == Distance(center, entry.center) < GateDistance * GateDistance

FarFromAll(center, items) ==
    \A k \in DOMAIN items : ~InGate(center, items[k])

OnlyInGateOf(center, items, k) ==
    /\ InGate(center, items[k])
    /\ \A m \in DOMAIN items : items[m].id # items[k].id => ~InGate(center, items[m])

IdOf(detection) == detection.tracker_id[1]

\* the centroids of the detections of a tracked list that carry id t, in order
RECURSIVE CentersOf(_, _, _)
CentersOf(dets, t, i) ==
    IF i > Len(dets) THEN <<>>
    ELSE IF dets[i].tracker_id = Some(t)
         THEN <<dets[i].center>> \o CentersOf(dets, t, i + 1)
         ELSE CentersOf(dets, t, i + 1)

LastN(n, q) == IF Len(q) <= n THEN q ELSE SubSeq(q, Len(q) - n + 1, Len(q))

HistoryOf(hist, t) == IF t \in DOMAIN hist THEN hist[t] ELSE <<>>

CountOf(vc, c) == IF c \in DOMAIN vc THEN vc[c] ELSE 0

\* ------------------------------------------------------------------ C1
\* C1: in update_tracking every detection whose centroid is at distance
\* >= 100 from every track of the prior centroid map gets an id that no
\* detection was given before, in this frame or an earlier one.
C1_FreshIdWhenFar ==
    [][TrackedFrame =>
        \A i \in DOMAIN detections' :
            FarFromAll(detections'[i].center, trackers) =>
                /\ detections'[i].tracker_id # None
                /\ IdOf(detections'[i]) \notin assigned
                /\ \A j \in DOMAIN detections' :
                       j # i => detections'[j].tracker_id # detections'[i].tracker_id]_vars

\* a frame was tracked against a non-empty prior map and one of its
\* detections, at the gate distance or beyond from every prior track, opened
\* a track
C1_Witness ==
    /\ op \in {"update_tracking", "process_frame"}
    /\ prev_trackers # <<>>
    /\ \E i \in DOMAIN detections :
          /\ FarFromAll(detections[i].center, prev_trackers)
          /\ \E k \in DOMAIN prev_trackers :
                Distance(detections[i].center, prev_trackers[k].center)
                    = GateDistance * GateDistance
          /\ IdOf(detections[i]) = next_tracker_id - 1

\* ------------------------------------------------------------------ C2
\* C2: a detection within the gate of exactly one track of the prior map
\* gets that track's id, and the track's history takes one entry for each
\* detection given its id, the oldest entries leaving once 30 are held.
C2_UniqueGateMatch ==
    [][TrackedFrame =>
        \A i \in DOMAIN detections' : \A k \in DOMAIN trackers :
            OnlyInGateOf(detections'[i].center, trackers, k) =>
                LET t == trackers[k].id
                IN  /\ detections'[i].tracker_id = Some(t)
                    /\ HistoryOf(tracker_history', t) =
                         LastN(HistoryMaxLen,
                               HistoryOf(tracker_history, t) \o CentersOf(detections', t, 1))
                    /\ Len(CentersOf(detections', t, 1)) = 1 =>
                         Len(HistoryOf(tracker_history', t)) =
                           IF Len(HistoryOf(tracker_history, t)) = HistoryMaxLen
                           THEN HistoryMaxLen
                           ELSE Len(HistoryOf(tracker_history, t)) + 1]_vars

\* a detection matched the one track within its gate while another live
\* track was out of reach and the matched history was already full
C2_Witness ==
    /\ op = "update_tracking"
    /\ Len(prev_trackers) >= 2
    /\ \E i \in DOMAIN detections : \E k \in DOMAIN prev_trackers :
          /\ OnlyInGateOf(detections[i].center, prev_trackers, k)
          /\ detections[i].tracker_id = Some(prev_trackers[k].id)
          /\ Len(arrivals[prev_trackers[k].id]) > HistoryMaxLen + 1
          /\ Len(tracker_history[prev_trackers[k].id]) = HistoryMaxLen

\* ------------------------------------------------------------------ C3
\* C3: every history holds at most 30 entries, and they are the most recent
\* 30 centroids appended to it, in arrival order.
C3_BoundedWindow ==
    \A t \in DOMAIN tracker_history :
        /\ Len(tracker_history[t]) <= HistoryMaxLen
        /\ t \in DOMAIN arrivals
        /\ tracker_history[t] = LastN(HistoryMaxLen, arrivals[t])
        /\ Len(arrivals[t]) >= HistoryMaxLen => Len(tracker_history[t]) = HistoryMaxLen

\* a track took more than 30 centroids, not all equal
C3_Witness ==
    \E t \in DOMAIN arrivals :
        /\ Len(arrivals[t]) >= HistoryMaxLen + 2
        /\ arrivals[t][1] # arrivals[t][Len(arrivals[t])]

\* ------------------------------------------------------------------ C4
\* C4: next_tracker_id never decreases, grows by one for each track a frame
\* creates, and the ids of created tracks are new and pairwise different.
C4_IdsNeverReused ==
    [][/\ next_tracker_id' >= next_tracker_id
       /\ ~TrackedFrame => next_tracker_id' = next_tracker_id
       /\ TrackedFrame =>
            LET created == {i \in DOMAIN detections' :
                              FarFromAll(detections'[i].center, trackers)}
            IN  /\ next_tracker_id' = next_tracker_id + Cardinality(created)
                /\ \A i \in created :
                      /\ IdOf(detections'[i]) \notin assigned
                      /\ IdOf(detections'[i]) \notin DOMAIN tracker_history
                      /\ \A j \in created :
                            j # i => IdOf(detections'[j]) # IdOf(detections'[i])]_vars

\* a track was created after an earlier track had been dropped from the
\* live set
C4_Witness ==
    /\ op \in {"update_tracking", "process_frame"}
    /\ \E i \in DOMAIN detections :
          /\ IdOf(detections[i]) = next_tracker_id - 1
          /\ Len(arrivals[IdOf(detections[i])]) = 1
          /\ \E t \in assigned :
                /\ t < IdOf(detections[i])
                /\ t \in DictKeys(prev_trackers)
                /\ t \notin DictKeys(trackers)

\* ------------------------------------------------------------------ C5
\* C5: update_tracking returns the detections it was given, as many and in
\* the same order, each carrying one track id.
C5_EveryDetectionAnnotated ==
    [][TrackedFrame =>
        /\ Len(detections') = Len(arg')
        /\ \A i \in DOMAIN arg' :
              /\ detections'[i].center = arg'[i].center
              /\ detections'[i].class_name = arg'[i].class_name
              /\ detections'[i].tracker_id # None
              /\ Len(detections'[i].tracker_id) = 1
              /\ IdOf(detections'[i]) \in FirstTrackerId..(next_tracker_id' - 1)]_vars

\* a frame of two different detections came back annotated
C5_Witness ==
    /\ op = "update_tracking"
    /\ Len(arg) = 2
    /\ arg[1] # arg[2]
    /\ Len(detections) = 2
    /\ \A i \in 1..2 : detections[i].tracker_id # None

\* ------------------------------------------------------------------ C6
\* the lines count_vehicles printed for track t in its last run, one line
\* for each increment
IncrementsFor(log, t) == {k \in DOMAIN log : log[k].id = t}

\* C6: when a frame is tracked and then counted once, as the loop of
\* process_video_advanced does, no track gets more than one increment in
\* that frame.
C6_OneIncrementPerTrackAndFrame ==
    [][op' = "process_frame" =>
        /\ \A t \in assigned' : Cardinality(IncrementsFor(printed', t)) <= 1
        /\ Total(vehicle_count') - Total(vehicle_count) <=
             Cardinality({IdOf(detections'[i]) : i \in DOMAIN detections'})]_vars

\* ------------------------------------------------------------------ C7
\* the list count_vehicles ran on in the step, and the condition of the
\* claim for one of its detections
CountedList == IF op = "process_frame" THEN detections ELSE arg

CrossesLine(detection, hist, line_y) ==
    /\ detection.tracker_id # None
    /\ IdOf(detection) \in DOMAIN hist
    /\ Len(hist[IdOf(detection)]) >= 2
    /\ LET h == hist[IdOf(detection)]
       IN  h[Len(h) - 1][2] < line_y /\ line_y <= h[Len(h)][2]

\* C7: with a counting line set, count_vehicles adds to each class exactly
\* the number of its detections whose track's last two y-values satisfy
\* prev_y < line_y <= curr_y: one for each such detection, nothing for any
\* other detection and nothing for any other class.
C7_CountsExactlyTheCrossings ==
    [][(op' \in {"count_vehicles", "process_frame"} /\ counting_line_y # None) =>
        \A c \in Classes \cup DOMAIN vehicle_count' :
            CountOf(vehicle_count', c) - CountOf(vehicle_count, c) =
                Cardinality({i \in DOMAIN CountedList' :
                    /\ CountedList'[i].class_name = c
                    /\ CrossesLine(CountedList'[i], tracker_history',
                                   counting_line_y[1])})]_vars

\* count_vehicles ran on a list of two: a detection that crossed, with
\* curr_y on the line, and one of another class that did not cross; only
\* the first was counted
C7_Witness ==
    /\ op \in {"count_vehicles", "process_frame"}
    /\ counting_line_y # None
    /\ Len(CountedList) = 2
    /\ Len(printed) = 1
    /\ \E i \in DOMAIN CountedList : \E j \in DOMAIN CountedList :
          /\ CrossesLine(CountedList[i], tracker_history, counting_line_y[1])
          /\ tracker_history[IdOf(CountedList[i])]
               [Len(tracker_history[IdOf(CountedList[i])])][2] = counting_line_y[1]
          /\ printed[1].vehicle_type = CountedList[i].class_name
          /\ vehicle_count[CountedList[i].class_name] = 1
          /\ CountedList[j].class_name # CountedList[i].class_name
          /\ CountedList[j].class_name \notin DOMAIN vehicle_count
          /\ ~CrossesLine(CountedList[j], tracker_history, counting_line_y[1])

\* ------------------------------------------------------------------ C8
\* C8: without a counting line count_vehicles changes no counter and
\* returns an empty table, which is the current vehicle_count.
C8_NoLineNoCount ==
    [][(op' = "count_vehicles" /\ counting_line_y = None) =>
        /\ vehicle_count' = vehicle_count
        /\ printed' = <<>>
        /\ count_ret' = EmptyDict
        /\ count_ret' = vehicle_count']_vars

\* count_vehicles ran without a line on a detection whose track had moved
\* down by two points
C8_Witness ==
    /\ op = "count_vehicles"
    /\ counting_line_y = None
    /\ \E i \in DOMAIN arg :
          /\ arg[i].tracker_id # None
          /\ IdOf(arg[i]) \in DOMAIN tracker_history
          /\ LET h == tracker_history[IdOf(arg[i])]
             IN  Len(h) >= 2 /\ h[Len(h) - 1][2] < h[Len(h)][2]

\* ------------------------------------------------------------------ C9
\* C9: every counter is a non-negative integer and no step of any operation
\* removes or lowers it.
C9_CountersNeverDecrease ==
    /\ [](\A c \in DOMAIN vehicle_count : vehicle_count[c] \in Nat)
    /\ [][\A c \in DOMAIN vehicle_count :
            /\ c \in DOMAIN vehicle_count'
            /\ vehicle_count'[c] >= vehicle_count[c]]_vars

\* a counter stood at 2 or more and another operation ran after the count
C9_Witness ==
    /\ \E c \in DOMAIN vehicle_count : vehicle_count[c] >= 2
    /\ op \in {"update_tracking", "estimate_speed", "detect_lanes", "set_counting_zone"}

\* ----------------------------------------------------------------- C10
\* C10: estimate_speed returns None for an unknown track id and for a
\* history of fewer than 2 points; otherwise, for a frame rate fps > 0, it
\* returns distance(first, last) / (entries / fps), which is 750 for the
\* history [(0,0), (30,40)] at fps = 30.
C10_SpeedOverWindow ==
    op = "estimate_speed" =>
        LET h == HistoryOf(tracker_history, arg.tracker_id)
        IN  /\ (arg.tracker_id \notin DOMAIN tracker_history \/ Len(h) < 2) =>
                 speed_ret.kind = "none"
            /\ (Len(h) >= 2 /\ arg.fps > 0) =>
                 /\ speed_ret.kind = "value"
                 /\ speed_ret.num * Len(h) * Len(h) =
                      speed_ret.den * Distance(h[1], h[Len(h)]) * arg.fps * arg.fps
                 /\ speed_ret.den > 0
            /\ (h = <<<<0, 0>>, <<30, 40>>>> /\ arg.fps = 30) =>
                 /\ speed_ret.kind = "value"
                 /\ speed_ret.num = 750 * 750 * speed_ret.den

\* the speed of the history [(0,0), (30,40)] was asked at fps = 30
C10_Witness ==
    /\ op = "estimate_speed"
    /\ arg.fps = 30
    /\ HistoryOf(tracker_history, arg.tracker_id) = <<<<0, 0>>, <<30, 40>>>>
    /\ speed_ret.kind = "value"

\* a step that ran count_vehicles (alone or inside the loop)
CountedFrame == op' \in {"count_vehicles", "process_frame"}

\* the ids written into a tracked list
IdsOf(dets) == {IdOf(dets[i]) : i \in DOMAIN dets}

\* the number of detections of a list that are at the gate distance or
\* beyond from every track of a centroid map
RECURSIVE FarCount(_, _, _)
FarCount(dets, items, i) ==
    IF i > Len(dets) THEN 0
    ELSE (IF FarFromAll(dets[i].center, items) THEN 1 ELSE 0)
            + FarCount(dets, items, i + 1)

\* ----------------------------------------------------------------- C11
\* C11: from an empty detector with the counting line at y = 90, the frames
\* with one detection each at (100,50), (100,55), (100,95), each tracked and
\* then counted, keep track id 1 throughout, leave every counter absent
\* (zero) through frames 1 and 2, and after frame 3 is counted the class of
\* its detection stands at exactly 1 and no other class has a counter.
C11_ThreeFrameCrossing ==
    LET path == << <<100, 50>>, <<100, 55>>, <<100, 95>> >> IN
    (/\ counting_line_y = Some(90)
     /\ frame_count \in 1..3
     /\ 1 \in DOMAIN arrivals
     /\ arrivals[1] = SubSeq(path, 1, frame_count)) =>
        /\ next_tracker_id = 2
        /\ Len(detections) = 1
        /\ detections[1].tracker_id = Some(1)
        /\ DictKeys(trackers) = {1}
        /\ (frame_count < 3 \/ op = "update_tracking") =>
              /\ vehicle_count = EmptyDict
              /\ printed = <<>>
        /\ (frame_count = 3 /\ op # "update_tracking") =>
              /\ vehicle_count = (detections[1].class_name :> 1)
              /\ Len(printed) = 1

\* the third frame of the scenario was counted
C11_Witness ==
    /\ counting_line_y = Some(90)
    /\ frame_count = 3
    /\ 1 \in DOMAIN arrivals
    /\ arrivals[1] = << <<100, 50>>, <<100, 55>>, <<100, 95>> >>
    /\ op = "count_vehicles"
    /\ Total(vehicle_count) = 1

\* ----------------------------------------------------------------- C12
\* C12: when update_tracking is called again with the frame it has just
\* processed, every detection within the gate of a track of the live map
\* gets the id of such a track, not a new one, and next_tracker_id advances
\* only by the number of detections that are within the gate of no track:
\* it is unchanged when there is none.
C12_ReplayCreatesNoId ==
    [][(/\ op \in {"update_tracking", "process_frame"}
        /\ TrackedFrame
        /\ arg' = arg) =>
        /\ \A i \in DOMAIN detections' :
              ~FarFromAll(detections'[i].center, trackers) =>
                  /\ detections'[i].tracker_id # None
                  /\ IdOf(detections'[i]) \in DictKeys(trackers)
                  /\ IdOf(detections'[i]) < next_tracker_id
        /\ next_tracker_id' = next_tracker_id + FarCount(arg', trackers, 1)]_vars

\* the frame of one detection that opened track 1 was replayed and the
\* detection kept that id
C12_Witness ==
    /\ op = "update_tracking"
    /\ frame_count = 2
    /\ Len(arg) = 1
    /\ next_tracker_id = 2
    /\ DictKeys(prev_trackers) = {1}
    /\ detections[1].tracker_id = Some(1)
    /\ arrivals[1] = <<detections[1].center, detections[1].center>>

\* ----------------------------------------------------------------- C13
\* C13: after update_tracking the live map holds exactly the ids written
\* into this frame's detections, each an id of the prior map or one created
\* in this frame; an id of the prior map that no detection matched is
\* absent from the live map and its history entry is still there, unchanged.
C13_LiveMapIsThisFrame ==
    [][TrackedFrame =>
        /\ \A i \in DOMAIN detections' : detections'[i].tracker_id # None
        /\ DictKeys(trackers') = IdsOf(detections')
        /\ \A t \in DictKeys(trackers') :
              \/ t \in DictKeys(trackers)
              \/ t >= next_tracker_id /\ t < next_tracker_id'
        /\ \A t \in DictKeys(trackers) \ IdsOf(detections') :
              /\ t \notin DictKeys(trackers')
              /\ t \in DOMAIN tracker_history
              /\ t \in DOMAIN tracker_history'
              /\ tracker_history'[t] = tracker_history[t]]_vars

\* a frame matched one track of the prior map and not another one
C13_Witness ==
    /\ op \in {"update_tracking", "process_frame"}
    /\ \E k \in DOMAIN prev_trackers :
          /\ prev_trackers[k].id \notin DictKeys(trackers)
          /\ prev_trackers[k].id \in DOMAIN tracker_history
    /\ \E k \in DOMAIN prev_trackers : prev_trackers[k].id \in DictKeys(trackers)

\* ----------------------------------------------------------------- C14
\* C14: update_tracking on an empty list returns an empty list and leaves
\* the live map empty; count_vehicles on an empty list prints no crossing
\* and returns the unchanged table (the empty one when no line is set);
\* neither appends to a history, allocates an id or changes a counter.
C14_EmptyFrame ==
    [][/\ (TrackedFrame /\ arg' = <<>>) =>
            /\ detections' = <<>>
            /\ trackers' = <<>>
            /\ tracker_history' = tracker_history
            /\ arrivals' = arrivals
            /\ next_tracker_id' = next_tracker_id
            /\ (op' = "update_tracking" => vehicle_count' = vehicle_count)
       /\ (CountedFrame /\ arg' = <<>>) =>
            /\ vehicle_count' = vehicle_count
            /\ printed' = <<>>
            /\ count_ret' = (IF counting_line_y = None THEN EmptyDict
                             ELSE vehicle_count)
            /\ tracker_history' = tracker_history
            /\ next_tracker_id' = next_tracker_id
            /\ (op' = "count_vehicles" => trackers' = trackers)]_vars

\* with a line set, an empty frame was tracked while a track was live and
\* had history, and was then counted
C14_Witness ==
    /\ op = "count_vehicles"
    /\ arg = <<>>
    /\ detections = <<>>
    /\ trackers = <<>>
    /\ prev_trackers # <<>>
    /\ DOMAIN tracker_history # {}
    /\ counting_line_y # None
    /\ count_ret = vehicle_count

\* ----------------------------------------------------------------- C15
\* C15: detect_from_image on a path that cv2.imread cannot read raises
\* ValueError instead of returning an image, runs the model not once and
\* writes no output file, whatever output path was given.
C15_UnreadableImageRaises ==
    [][(op' = "detect_from_image" /\ ImRead(arg'.image_path) = None) =>
        /\ image_ret'.kind = "ValueError"
        /\ model_runs' = model_runs
        /\ files' = files]_vars

\* after an image was processed, an unreadable path was given together with
\* an output path; no file of that name exists
C15_Witness ==
    /\ op = "detect_from_image"
    /\ arg.image_path = "non_existent.jpg"
    /\ Truthy(arg.output_path)
    /\ arg.output_path[1] \notin DOMAIN files
    /\ image_ret.kind = "ValueError"
    /\ model_runs > 0

\* ----------------------------------------------------------------- C16
\* C16: in update_tracking a detection within the gate (distance < 100) of
\* some track of the prior map gets the id of a prior track at the least
\* distance; a detection at distance >= 100 from every prior track gets a
\* new id, also when a track created or moved earlier in the same frame is
\* nearer than 100.
C16_NearestPriorTrack ==
    [][TrackedFrame =>
        \A i \in DOMAIN detections' :
            LET c == detections'[i].center
                t == IdOf(detections'[i])
            IN  /\ detections'[i].tracker_id # None
                /\ ~FarFromAll(c, trackers) =>
                      \E k \in DOMAIN trackers :
                          /\ trackers[k].id = t
                          /\ InGate(c, trackers[k])
                          /\ \A m \in DOMAIN trackers :
                                Distance(c, trackers[k].center)
                                    <= Distance(c, trackers[m].center)
                /\ FarFromAll(c, trackers) =>
                      /\ t \notin DictKeys(trackers)
                      /\ t >= next_tracker_id
                      /\ t < next_tracker_id']_vars

\* a detection at exactly the gate distance from the only prior track opened
\* a new track although an earlier detection of the frame had moved that
\* track to within the gate of it
C16_Witness ==
    /\ op \in {"update_tracking", "process_frame"}
    /\ Len(prev_trackers) = 1
    /\ \E i \in DOMAIN detections : \E j \in DOMAIN detections :
          /\ i < j
          /\ IdOf(detections[i]) = prev_trackers[1].id
          /\ Distance(detections[j].center, prev_trackers[1].center)
                = GateDistance * GateDistance
          /\ Distance(detections[j].center, detections[i].center)
                < GateDistance * GateDistance
          /\ IdOf(detections[j]) # prev_trackers[1].id
          /\ IdOf(detections[j]) = next_tracker_id - 1

\* ----------------------------------------------------------------- C17
\* C17: when two detections of one frame are given the same id of the prior
\* map, the track's history receives their centroids in detection order and
\* the live map holds one entry for the id, at the centroid of the later
\* detection.
C17_SharedIdKeepsLater ==
    [][TrackedFrame =>
        \A t \in DictKeys(trackers) :
            LET centers == CentersOf(detections', t, 1) IN
            Len(centers) >= 2 =>
                /\ arrivals'[t] = arrivals[t] \o centers
                /\ tracker_history'[t] =
                      LastN(HistoryMaxLen, tracker_history[t] \o centers)
                /\ Cardinality({k \in DOMAIN trackers' : trackers'[k].id = t}) = 1
                /\ \A k \in DOMAIN trackers' :
                      trackers'[k].id = t =>
                          trackers'[k].center = centers[Len(centers)]]_vars

\* two detections of one frame, at different centroids, carry the same id
\* of the prior map
C17_Witness ==
    /\ op \in {"update_tracking", "process_frame"}
    /\ \E i \in DOMAIN detections : \E j \in DOMAIN detections :
          /\ i < j
          /\ detections[i].tracker_id = detections[j].tracker_id
          /\ IdOf(detections[i]) \in DictKeys(prev_trackers)
          /\ detections[i].center # detections[j].center
          /\ \E k \in DOMAIN trackers :
                /\ trackers[k].id = IdOf(detections[j])
                /\ trackers[k].center = detections[j].center

\* ----------------------------------------------------------------- C18
\* C18: count_vehicles adds nothing for a detection whose track has fewer
\* than two history points, as every track has in the frame that created
\* it, nor for one whose track's previous point is on or below the line
\* (prev_y >= line_y), for every line value.
C18_NoUpwardNoNewTrack ==
    [][CountedFrame =>
        /\ \A i \in DOMAIN CountedList' :
              CountedList'[i].tracker_id # None =>
                  LET t == IdOf(CountedList'[i])
                      h == HistoryOf(tracker_history', t)
                  IN  (\/ Len(h) < 2
                       \/ /\ counting_line_y # None
                          /\ h[Len(h) - 1][2] >= counting_line_y[1]) =>
                          IncrementsFor(printed', t) = {}
        /\ op' = "process_frame" =>
              \A i \in DOMAIN detections' :
                  IdOf(detections'[i]) >= next_tracker_id =>
                      /\ Len(tracker_history'[IdOf(detections'[i])]) = 1
                      /\ IncrementsFor(printed', IdOf(detections'[i])) = {}]_vars

\* with a line set, a frame was counted in which one track had moved up
\* across the line and another had just been created; nothing was counted
C18_Witness ==
    /\ op \in {"count_vehicles", "process_frame"}
    /\ counting_line_y # None
    /\ printed = <<>>
    /\ \E i \in DOMAIN CountedList : \E j \in DOMAIN CountedList :
          /\ CountedList[i].tracker_id # None
          /\ CountedList[j].tracker_id # None
          /\ LET h == HistoryOf(tracker_history, IdOf(CountedList[i]))
             IN  /\ Len(h) >= 2
                 /\ h[Len(h) - 1][2] >= counting_line_y[1]
                 /\ h[Len(h)][2] < counting_line_y[1]
          /\ Len(HistoryOf(tracker_history, IdOf(CountedList[j]))) = 1

\* ----------------------------------------------------------------- C19
\* C19: with a line set, count_vehicles counts a tracked detection exactly
\* when the last two points of its track satisfy prev_y < line_y <= curr_y,
\* however often the track was counted before; so a track that moves back
\* above the line and down again is counted a second time.
C19_CountedAgain ==
    [][(CountedFrame /\ counting_line_y # None) =>
        \A i \in DOMAIN CountedList' :
            LET d == CountedList'[i] IN
            d.tracker_id # None =>
                IF CrossesLine(d, tracker_history', counting_line_y[1])
                THEN /\ IncrementsFor(printed', IdOf(d)) # {}
                     /\ CountOf(vehicle_count', d.class_name)
                           = CountOf(vehicle_count, d.class_name) + 1
                ELSE IncrementsFor(printed', IdOf(d)) = {}]_vars

\* the only track there is went down across the line, back above it and
\* down again, and was counted both times
C19_Witness ==
    /\ op \in {"count_vehicles", "process_frame"}
    /\ next_tracker_id = 2
    /\ 1 \in DOMAIN arrivals
    /\ Len(arrivals[1]) = 4
    /\ arrivals[1][2][2] >= 90
    /\ arrivals[1][3][2] < 90
    /\ arrivals[1][4][2] >= 90
    /\ Len(printed) = 1
    /\ printed[1].id = 1
    /\ Total(vehicle_count) = 2

\* ----------------------------------------------------------------- C20
\* C20: no step removes a key from tracker_history; a tracked frame adds
\* one key for each track it creates, and the live map afterwards has no
\* more entries than the frame has detections.
C20_HistoryKeysNeverRemoved ==
    [][/\ DOMAIN tracker_history \subseteq DOMAIN tracker_history'
       /\ TrackedFrame =>
            /\ DOMAIN tracker_history' = DOMAIN tracker_history \cup IdsOf(detections')
            /\ Cardinality(DOMAIN tracker_history')
                  = Cardinality(DOMAIN tracker_history)
                       + (next_tracker_id' - next_tracker_id)
            /\ Len(trackers') <= Len(arg')
            /\ Cardinality(DictKeys(trackers')) = Len(trackers')]_vars

\* five tracks have a history entry while the live map holds at most two
C20_Witness ==
    /\ op = "update_tracking"
    /\ Cardinality(DOMAIN tracker_history) >= 5
    /\ Len(trackers) <= 2
    /\ Len(trackers) <= Len(arg)
    /\ DictKeys(trackers) # DOMAIN tracker_history

\* ----------------------------------------------------------------- C21
\* the calls of one iteration of the loop, in the order of the claim
LoopOrder ==
    <<"read", "detect_vehicles", "update_tracking", "count_vehicles",
      "detect_lanes">>

\* the trace is the loop order repeated, frame after frame
InLoopOrder ==
    \A i \in DOMAIN trace :
        trace[i] = [step  |-> LoopOrder[((i - 1) % Len(LoopOrder)) + 1],
                    frame |-> ((i - 1) \div Len(LoopOrder)) + 1]

\* C21 as stated: the calls are made in loop order, frame after frame, and
\* when the loop has ended every frame of the stream has been read and
\* processed.
C21_EveryFrameProcessed ==
    /\ InLoopOrder
    /\ pc = "done" => (cap = <<>> /\ Len(trace) % Len(LoopOrder) = 0)

\* C21 amended: for each frame read the loop calls detect_vehicles,
\* update_tracking, count_vehicles and detect_lanes once each in this order
\* before it reads again; no frame is skipped or read twice; the loop
\* terminates, and it ends with frames unread only when the quit key was
\* pressed while show_video is on.
C21_LoopInOrder ==
    /\ [](InLoopOrder)
    /\ [](pc \in {"read", "done"} => Len(trace) % Len(LoopOrder) = 0)
    /\ [](pc = "done" =>
            \/ cap = <<>>
            \/ show_video /\ op = "show" /\ key = Some("q"))
    /\ [][pc # "idle" => Len(cap') + FramesRead' = Len(cap) + FramesRead]_vars
    /\ (pc = "read" ~> pc = "done")

\* the loop ended by itself after a video of two frames
C21_Witness ==
    /\ pc = "done"
    /\ cap = <<>>
    /\ op = "read"
    /\ FramesRead = 2
    /\ Len(trace) = 2 * Len(LoopOrder)

Flat(segment) ==
    /\ segment[4] - segment[2] < LaneMaxDeltaY
    /\ segment[2] - segment[4] < LaneMaxDeltaY

\* C23: detect_lanes returns the candidate segments of the line extraction
\* with |y2 - y1| < 50, all of them and no other, in the order of the
\* candidates; it returns the empty list when the extraction yields None.
C23_LaneFilter ==
    op = "detect_lanes" =>
        LET lines == frame[1].lines
        IN  /\ \A k \in DOMAIN lanes_ret : Flat(lanes_ret[k])
            /\ lines = None => lanes_ret = <<>>
            /\ lines # None => lanes_ret = SelectSeq(lines[1], Flat)

\* of three candidates the first and the last were returned; the one left
\* out is not flat
C23_Witness ==
    /\ op = "detect_lanes"
    /\ frame[1].lines # None
    /\ Len(frame[1].lines[1]) = 3
    /\ lanes_ret = <<frame[1].lines[1][1], frame[1].lines[1][3]>>
    /\ ~Flat(frame[1].lines[1][2])

\* ----------------------------------------------------------------- C24
\* C24 as stated: for a track that has received more samples than the
\* history holds, the oldest retained sample is the one received 30 samples
\* before the newest, and the speed is their distance over 30 / fps.
C24_OldestThirtyBehind ==
    (/\ op = "estimate_speed"
     /\ arg.fps > 0
     /\ arg.tracker_id \in DOMAIN arrivals
     /\ Len(arrivals[arg.tracker_id]) > HistoryMaxLen) =>
        LET a == arrivals[arg.tracker_id]
            h == tracker_history[arg.tracker_id]
        IN  /\ h[1] = a[Len(a) - HistoryMaxLen]
            /\ speed_ret.kind = "value"
            /\ speed_ret.den = Sq(HistoryMaxLen)
            /\ speed_ret.num =
                  Distance(a[Len(a) - HistoryMaxLen], a[Len(a)]) * Sq(arg.fps)

\* C24 amended: once a track has received 30 samples or more, the history
\* is the window of the last 30 of them, whatever the track's age; the
\* oldest retained sample is the one received 29 samples before the newest,
\* and estimate_speed returns the distance between these two over 30 / fps
\* (the square of the speed is num / den).
C24_MovingWindow ==
    (/\ op = "estimate_speed"
     /\ arg.fps > 0
     /\ arg.tracker_id \in DOMAIN arrivals
     /\ Len(arrivals[arg.tracker_id]) >= HistoryMaxLen) =>
        LET a == arrivals[arg.tracker_id]
            h == tracker_history[arg.tracker_id]
        IN  /\ h = LastN(HistoryMaxLen, a)
            /\ h[1] = a[Len(a) - (HistoryMaxLen - 1)]
            /\ speed_ret.kind = "value"
            /\ speed_ret.den = Sq(HistoryMaxLen)
            /\ speed_ret.num =
                  Distance(a[Len(a) - (HistoryMaxLen - 1)], a[Len(a)])
                     * Sq(arg.fps)

\* the speed of a track that has received more than 30 samples was asked
C24_Witness ==
    /\ op = "estimate_speed"
    /\ arg.fps > 0
    /\ arg.tracker_id \in DOMAIN arrivals
    /\ Len(arrivals[arg.tracker_id]) > HistoryMaxLen + 1
    /\ speed_ret.kind = "value"

\* ----------------------------------------------------------------- C25
\* a box of one of the four vehicle classes whose confidence is not below
\* the threshold
Kept(box) ==
    /\ box.class_id \in {2, 3, 5, 7}
    /\ ~(box.confidence < ConfidenceThreshold)

\* C25: detect_vehicles returns one detection for each model box with a
\* class id in {2, 3, 5, 7} and a confidence >= confidence_threshold, in the
\* order of the boxes, and none for any other box; every detection that
\* update_tracking receives in the loop passes this filter.
C25_DetectorFilters ==
    /\ op = "detect_vehicles" =>
          LET kept == SelectSeq(arg, Kept)
          IN  /\ Len(detections) = Len(kept)
              /\ \A i \in DOMAIN detections :
                    /\ detections[i].bbox = kept[i].bbox
                    /\ detections[i].class_id = kept[i].class_id
                    /\ detections[i].confidence = kept[i].confidence
    /\ op = "update_tracking" => \A i \in DOMAIN arg : Kept(arg[i])

\* of a bus at confidence 0.49 and a truck at confidence 0.50, the
\* threshold, only the truck was returned
C25_Witness ==
    /\ op = "detect_vehicles"
    /\ Len(arg) = 2
    /\ arg[1].class_id = 5
    /\ arg[1].confidence = ConfidenceThreshold - 1
    /\ Len(detections) = 1
    /\ detections[1].confidence = ConfidenceThreshold
    /\ detections[1].class_name = "truck"

\* ----------------------------------------------------------------- C26
\* C26: in every state every id of the live map has a non-empty history
\* whose last entry is the live centroid of the id, every id ever written
\* into a detection lies in 1..next_tracker_id-1, and the ids with a history
\* entry are exactly 1..next_tracker_id-1.
C26_RegistryConsistent ==
    /\ \A k \in DOMAIN trackers :
          /\ trackers[k].id \in DOMAIN tracker_history
          /\ Len(tracker_history[trackers[k].id]) > 0
          /\ tracker_history[trackers[k].id][Len(tracker_history[trackers[k].id])]
                = trackers[k].center
    /\ assigned \subseteq 1..(next_tracker_id - 1)
    /\ DOMAIN tracker_history = 1..(next_tracker_id - 1)

\* update_tracking has run twice; two ids or more were allocated, one track was
\* matched again and another one dropped from the live map
C26_Witness ==
    /\ op \in {"update_tracking", "process_frame"}
    /\ frame_count = 2
    /\ next_tracker_id >= 3
    /\ trackers # <<>>
    /\ DictKeys(trackers) # DOMAIN tracker_history
    /\ \E k \in DOMAIN trackers : Len(tracker_history[trackers[k].id]) >= 2

\* ----------------------------------------------------------------- C27
\* C27: when update_tracking is called on a frame and then at once on the
\* same frame again, the second call writes into each detection the id the
\* first call wrote, and leaves next_tracker_id and the set of live ids as
\* they were.
C27_ReplayStable ==
    [][(/\ op = "update_tracking"
        /\ TrackedFrame
        /\ arg' = arg) =>
        /\ detections' = detections
        /\ next_tracker_id' = next_tracker_id
        /\ DictKeys(trackers') = DictKeys(trackers)]_vars

\* ----------------------------------------------------------------- C28
\* the least index at which id t occurs in a tracked list
FirstIndex(dets, t) ==
    CHOOSE i \in DOMAIN dets :
        /\ IdOf(dets[i]) = t
        /\ \A j \in 1..(i - 1) : IdOf(dets[j]) # t

\* C28: a detection within the gate of a prior track gets the id of the
\* first entry, in the order of the prior map, among those at the least
\* distance; and the order of the map is the order in which the ids first
\* occurred among the detections of the frame that built it.
C28_FirstInMapWinsTie ==
    [][TrackedFrame =>
        /\ \A i \in DOMAIN detections' :
              LET c == detections'[i].center IN
              ~FarFromAll(c, trackers) =>
                  \E k \in DOMAIN trackers :
                      /\ IdOf(detections'[i]) = trackers[k].id
                      /\ \A m \in DOMAIN trackers :
                            /\ Distance(c, trackers[k].center)
                                  <= Distance(c, trackers[m].center)
                            /\ m < k => Distance(c, trackers[k].center)
                                           < Distance(c, trackers[m].center)
        /\ \A k \in DOMAIN trackers' : \A m \in DOMAIN trackers' :
              k < m => FirstIndex(detections', trackers'[k].id)
                          < FirstIndex(detections', trackers'[m].id)]_vars

\* a detection at the same distance, within the gate, from two prior tracks
\* got the id of the one first in the map, which is the higher id
C28_Witness ==
    /\ op = "update_tracking"
    /\ Len(prev_trackers) = 2
    /\ prev_trackers[1].id > prev_trackers[2].id
    /\ \E i \in DOMAIN detections :
          /\ Distance(detections[i].center, prev_trackers[1].center)
                = Distance(detections[i].center, prev_trackers[2].center)
          /\ InGate(detections[i].center, prev_trackers[1])
          /\ IdOf(detections[i]) = prev_trackers[1].id

\* ----------------------------------------------------------------- C29
\* C29: estimate_speed, for a known and for an unknown id, changes no field
\* of the detector; count_vehicles changes at most vehicle_count; neither
\* adds a key to tracker_history.
C29_QueriesLeaveRegistry ==
    [][/\ op' = "estimate_speed" =>
            UNCHANGED <<trackers, tracker_history, next_tracker_id,
                        vehicle_count, counting_line_y>>
       /\ op' = "count_vehicles" =>
            UNCHANGED <<trackers, tracker_history, next_tracker_id,
                        counting_line_y>>]_vars

\* the speed of an id without history was asked while another id had one
C29_Witness ==
    /\ op = "estimate_speed"
    /\ arg.tracker_id \notin DOMAIN tracker_history
    /\ speed_ret.kind = "none"
    /\ DOMAIN tracker_history # {}
    /\ trackers # <<>>

\* ----------------------------------------------------------------- C30
\* C30: estimate_speed returns None or a number that is not negative, for
\* every track id and every frame rate, and raises nothing.
C30_SpeedNeverRaises ==
    op = "estimate_speed" =>
        \/ speed_ret.kind = "none"
        \/ /\ speed_ret.kind = "value"
           /\ speed_ret.num >= 0
           /\ speed_ret.den > 0

====
